---------------------------- MODULE Spec2Model ----------------------------
(***************************************************************************)
(* Model of src/main.py: the FastAPI service with the keyword-heuristic    *)
(* landing-page generator (POST /api/generate), the database probe         *)
(* (GET /test) and the two greeting routes.                                *)
(*                                                                         *)
(* A Python str is modelled as a sequence of characters, each character a  *)
(* one-character TLA+ string; a character outside ASCII is written by its  *)
(* code point ("U+2705" is the check-mark emoji), so that strip, lower,    *)
(* title, split, join, slicing and the substring test `k in lower` are     *)
(* computed character by character as Python computes them.                *)
(***************************************************************************)
EXTENDS Integers, Sequences, FiniteSets

VARIABLES
    request,    \* the HTTP request being served (sequential service)
    pc,         \* "idle" before the handler runs, "done" after it returned
    frame,      \* the handler's local variables at its return
    response,   \* the value the handler returned
    creq,       \* concurrent service: per call, the prompt of its request
    cpc,        \* concurrent service: per call, the next statement to run
    frames,     \* concurrent service: the call frames (locals of generate)
    cresp,      \* concurrent service: per call, the returned value
    served      \* concurrent service: first response returned per prompt

seqVars == <<request, pc, frame, response>>
concVars == <<creq, cpc, frames, cresp, served>>
vars == <<request, pc, frame, response, creq, cpc, frames, cresp, served>>

---------------------------------------------------------------------------
(* Bounds of the model.                                                    *)

\* a generated prompt is the concatenation of at most MaxFrags fragments
MaxFrags == 3
\* exception messages run from 0 to MsgLimit + MaxMsgExtra characters
MaxMsgExtra == 2
\* list_collection_names returns up to CollLimit + MaxCollExtra names
MaxCollExtra == 1
\* calls of generate in flight at once in the concurrent service
NumCalls == 2

---------------------------------------------------------------------------
(* Python str operations.                                                  *)

\* Python None where a str is expected
None == <<"None">>

\* no value returned (yet)
NoResponse == [none |-> TRUE]

\* the characters str.strip() removes (ASCII part of str.isspace)
Whitespace == {" ", "\t", "\n", "\r", "\f"}

UpperAlpha ==
    <<"A","B","C","D","E","F","G","H","I","J","K","L","M",
      "N","O","P","Q","R","S","T","U","V","W","X","Y","Z">>

LowerAlpha ==
    <<"a","b","c","d","e","f","g","h","i","j","k","l","m",
      "n","o","p","q","r","s","t","u","v","w","x","y","z">>

IsUpper(c) == \E i \in 1..26 : UpperAlpha[i] = c
IsLower(c) == \E i \in 1..26 : LowerAlpha[i] = c
IsCased(c) == IsUpper(c) \/ IsLower(c)

LowerChar(c) ==
    IF IsUpper(c) THEN LowerAlpha[CHOOSE i \in 1..26 : UpperAlpha[i] = c] ELSE c

UpperChar(c) ==
    IF IsLower(c) THEN UpperAlpha[CHOOSE i \in 1..26 : LowerAlpha[i] = c] ELSE c

SetMin(S) == CHOOSE x \in S : \A y \in S : x <= y
SetMax(S) == CHOOSE x \in S : \A y \in S : y <= x

\* s.strip()
Strip(s) ==
    LET keep == {i \in 1..Len(s) : s[i] \notin Whitespace}
    IN  IF keep = {} THEN <<>> ELSE SubSeq(s, SetMin(keep), SetMax(keep))

\* s.lower()
Lower(s) == [i \in 1..Len(s) |-> LowerChar(s[i])]

\* s.title(): a cased character is upper-cased when the character before it
\* is not cased (or it is the first), lower-cased otherwise
Title(s) ==
    [i \in 1..Len(s) |->
        IF i > 1 /\ IsCased(s[i-1]) THEN LowerChar(s[i]) ELSE UpperChar(s[i])]

\* s.replace(a, b) for one-character a and b
Replace(s, a, b) == [i \in 1..Len(s) |-> IF s[i] = a THEN b ELSE s[i]]

\* s.split(sep) for a one-character sep: empty pieces are kept
RECURSIVE Split(_, _)
Split(s, sep) ==
    IF \A i \in 1..Len(s) : s[i] # sep
    THEN <<s>>
    ELSE LET i == SetMin({j \in 1..Len(s) : s[j] = sep})
         IN  <<SubSeq(s, 1, i - 1)>> \o Split(SubSeq(s, i + 1, Len(s)), sep)

\* sep.join(parts)
RECURSIVE Join(_, _)
Join(parts, sep) ==
    IF parts = <<>> THEN <<>>
    ELSE IF Len(parts) = 1 THEN parts[1]
    ELSE parts[1] \o sep \o Join(Tail(parts), sep)

\* seq[:n]
Prefix(seq, n) == SubSeq(seq, 1, IF n < Len(seq) THEN n ELSE Len(seq))

\* k in s  (substring test)
Contains(s, k) ==
    \E i \in 1..(Len(s) - Len(k) + 1) : \A j \in 1..Len(k) : s[i + j - 1] = k[j]

\* any(k in s for k in keys)
AnyIn(keys, s) == \E n \in 1..Len(keys) : Contains(s, keys[n])

\* x in seq  (list membership)
InList(x, seq) == \E i \in 1..Len(seq) : seq[i] = x

\* list(dict.fromkeys(seq)): first occurrences, in order
RECURSIVE FromKeys(_)
FromKeys(seq) ==
    IF seq = <<>> THEN <<>>
    ELSE LET init == FromKeys(SubSeq(seq, 1, Len(seq) - 1))
             last == seq[Len(seq)]
         IN  IF InList(last, init) THEN init ELSE Append(init, last)

---------------------------------------------------------------------------
(* String literals of src/main.py.                                         *)

\* main.py:46  bank fintech saas analytics ai ml
FintechKeys ==
    << <<"b","a","n","k">>,
       <<"f","i","n","t","e","c","h">>,
       <<"s","a","a","s">>,
       <<"a","n","a","l","y","t","i","c","s">>,
       <<"a","i">>,
       <<"m","l">> >>

\* main.py:48  sunset creative design marketing brand portfolio
SunsetKeys ==
    << <<"s","u","n","s","e","t">>,
       <<"c","r","e","a","t","i","v","e">>,
       <<"d","e","s","i","g","n">>,
       <<"m","a","r","k","e","t","i","n","g">>,
       <<"b","r","a","n","d">>,
       <<"p","o","r","t","f","o","l","i","o">> >>

\* main.py:50  health calm wellness eco green garden
MintKeys ==
    << <<"h","e","a","l","t","h">>,
       <<"c","a","l","m">>,
       <<"w","e","l","l","n","e","s","s">>,
       <<"e","c","o">>,
       <<"g","r","e","e","n">>,
       <<"g","a","r","d","e","n">> >>

\* main.py:67  ai ml gpt chat
AiKeys ==
    << <<"a","i">>,
       <<"m","l">>,
       <<"g","p","t">>,
       <<"c","h","a","t">> >>

\* main.py:68  "AI-assisted workflows that learn from your usage"
AiFeat ==
    <<"A","I","-","a","s","s","i","s","t","e","d"," ","w","o","r","k","f","l","o","w","s",
    " ","t","h","a","t"," ","l","e","a","r","n"," ","f","r","o","m"," ","y","o","u","r"," ",
    "u","s","a","g","e">>

\* main.py:69  "AI-powered"
AiTag ==
    <<"A","I","-","p","o","w","e","r","e","d">>

\* main.py:70  analytics insight metric dashboard
AnalyticsKeys ==
    << <<"a","n","a","l","y","t","i","c","s">>,
       <<"i","n","s","i","g","h","t">>,
       <<"m","e","t","r","i","c">>,
       <<"d","a","s","h","b","o","a","r","d">> >>

\* main.py:71  "Real-time analytics dashboards with actionable insights"
AnalyticsFeat ==
    <<"R","e","a","l","-","t","i","m","e"," ","a","n","a","l","y","t","i","c","s"," ","d",
    "a","s","h","b","o","a","r","d","s"," ","w","i","t","h"," ","a","c","t","i","o","n","a",
    "b","l","e"," ","i","n","s","i","g","h","t","s">>

\* main.py:72  "analytics"
AnalyticsTag ==
    <<"a","n","a","l","y","t","i","c","s">>

\* main.py:73  team collab share
TeamKeys ==
    << <<"t","e","a","m">>,
       <<"c","o","l","l","a","b">>,
       <<"s","h","a","r","e">> >>

\* main.py:74  "Team collaboration with comments and shared libraries"
TeamFeat ==
    <<"T","e","a","m"," ","c","o","l","l","a","b","o","r","a","t","i","o","n"," ","w","i",
    "t","h"," ","c","o","m","m","e","n","t","s"," ","a","n","d"," ","s","h","a","r","e","d",
    " ","l","i","b","r","a","r","i","e","s">>

\* main.py:75  "collaboration"
TeamTag ==
    <<"c","o","l","l","a","b","o","r","a","t","i","o","n">>

\* main.py:76  mobile ios android responsive
MobileKeys ==
    << <<"m","o","b","i","l","e">>,
       <<"i","o","s">>,
       <<"a","n","d","r","o","i","d">>,
       <<"r","e","s","p","o","n","s","i","v","e">> >>

\* main.py:77  "Responsive by default \u2014 perfect on mobile and desktop"
MobileFeat ==
    <<"R","e","s","p","o","n","s","i","v","e"," ","b","y"," ","d","e","f","a","u","l","t",
    " ","U+2014"," ","p","e","r","f","e","c","t"," ","o","n"," ","m","o","b","i","l","e",
    " ","a","n","d"," ","d","e","s","k","t","o","p">>

\* main.py:78  secure privacy gdpr auth
SecureKeys ==
    << <<"s","e","c","u","r","e">>,
       <<"p","r","i","v","a","c","y">>,
       <<"g","d","p","r">>,
       <<"a","u","t","h">> >>

\* main.py:79  "Enterprise-grade security and role-based access"
SecureFeat ==
    <<"E","n","t","e","r","p","r","i","s","e","-","g","r","a","d","e"," ","s","e","c","u",
    "r","i","t","y"," ","a","n","d"," ","r","o","l","e","-","b","a","s","e","d"," ","a","c",
    "c","e","s","s">>

\* main.py:80  api integrations zapier slack notion
ApiKeys ==
    << <<"a","p","i">>,
       <<"i","n","t","e","g","r","a","t","i","o","n","s">>,
       <<"z","a","p","i","e","r">>,
       <<"s","l","a","c","k">>,
       <<"n","o","t","i","o","n">> >>

\* main.py:81  "One-click integrations with your favorite tools"
ApiFeat ==
    <<"O","n","e","-","c","l","i","c","k"," ","i","n","t","e","g","r","a","t","i","o","n",
    "s"," ","w","i","t","h"," ","y","o","u","r"," ","f","a","v","o","r","i","t","e"," ","t",
    "o","o","l","s">>

\* main.py:84  "Clean, modern UI built for conversion"
DefaultFeat1 ==
    <<"C","l","e","a","n",","," ","m","o","d","e","r","n"," ","U","I"," ","b","u","i","l",
    "t"," ","f","o","r"," ","c","o","n","v","e","r","s","i","o","n">>

\* main.py:85  "Lightning-fast performance and SEO"
DefaultFeat2 ==
    <<"L","i","g","h","t","n","i","n","g","-","f","a","s","t"," ","p","e","r","f","o","r",
    "m","a","n","c","e"," ","a","n","d"," ","S","E","O">>

\* main.py:86  "Effortless setup \u2014 launch in minutes"
DefaultFeat3 ==
    <<"E","f","f","o","r","t","l","e","s","s"," ","s","e","t","u","p"," ","U+2014"," ","l",
    "a","u","n","c","h"," ","i","n"," ","m","i","n","u","t","e","s">>

\* main.py:40  "Your Product"
DefaultName ==
    <<"Y","o","u","r"," ","P","r","o","d","u","c","t">>

\* main.py:89  " platform to help you move faster"
SubtitleSuffix ==
    <<" ","p","l","a","t","f","o","r","m"," ","t","o"," ","h","e","l","p"," ","y","o","u",
    " ","m","o","v","e"," ","f","a","s","t","e","r">>

\* main.py:89  ", "
TagSeparator ==
    <<","," ">>

\* main.py:89  "A minimal landing that explains your value clearly."
DefaultSubtitle ==
    <<"A"," ","m","i","n","i","m","a","l"," ","l","a","n","d","i","n","g"," ","t","h","a",
    "t"," ","e","x","p","l","a","i","n","s"," ","y","o","u","r"," ","v","a","l","u","e"," ",
    "c","l","e","a","r","l","y",".">>

\* main.py:93  ": launch faster with clarity"
TitleSuffix ==
    <<":"," ","l","a","u","n","c","h"," ","f","a","s","t","e","r"," ","w","i","t","h"," ",
    "c","l","a","r","i","t","y">>

\* main.py:95  "Get Started"
HeroCta ==
    <<"G","e","t"," ","S","t","a","r","t","e","d">>

\* main.py:101  "Ready to launch your landing?"
CtaTitle ==
    <<"R","e","a","d","y"," ","t","o"," ","l","a","u","n","c","h"," ","y","o","u","r"," ",
    "l","a","n","d","i","n","g","?">>

\* main.py:102  "Generate Page"
CtaButton ==
    <<"G","e","n","e","r","a","t","e"," ","P","a","g","e">>

\* main.py:26  "Hello from FastAPI Backend!"
RootMessage ==
    <<"H","e","l","l","o"," ","f","r","o","m"," ","F","a","s","t","A","P","I"," ","B","a",
    "c","k","e","n","d","!">>

\* main.py:30  "Hello from the backend API!"
HelloMessage ==
    <<"H","e","l","l","o"," ","f","r","o","m"," ","t","h","e"," ","b","a","c","k","e","n",
    "d"," ","A","P","I","!">>

\* main.py:112  "\u2705 Running"
BackendRunning ==
    <<"U+2705"," ","R","u","n","n","i","n","g">>

\* main.py:113  "\u274c Not Available"
DbNotAvailable ==
    <<"U+274C"," ","N","o","t"," ","A","v","a","i","l","a","b","l","e">>

\* main.py:116  "Not Connected"
NotConnected ==
    <<"N","o","t"," ","C","o","n","n","e","c","t","e","d">>

\* main.py:125  "\u2705 Available"
DbAvailable ==
    <<"U+2705"," ","A","v","a","i","l","a","b","l","e">>

\* main.py:126  "\u2705 Configured"
UrlConfigured ==
    <<"U+2705"," ","C","o","n","f","i","g","u","r","e","d">>

\* main.py:127  "\u2705 Connected"
NameConnected ==
    <<"U+2705"," ","C","o","n","n","e","c","t","e","d">>

\* main.py:128  "Connected"
Connected ==
    <<"C","o","n","n","e","c","t","e","d">>

\* main.py:134  "\u2705 Connected & Working"
DbWorking ==
    <<"U+2705"," ","C","o","n","n","e","c","t","e","d"," ","&"," ","W","o","r","k","i","n",
    "g">>

\* main.py:136  "\u26a0\ufe0f  Connected but Error: "
ConnectedErrorPrefix ==
    <<"U+26A0","U+FE0F"," "," ","C","o","n","n","e","c","t","e","d"," ","b","u","t"," ","E",
    "r","r","o","r",":"," ">>

\* main.py:138  "\u26a0\ufe0f  Available but not initialized"
DbNotInitialized ==
    <<"U+26A0","U+FE0F"," "," ","A","v","a","i","l","a","b","l","e"," ","b","u","t"," ","n",
    "o","t"," ","i","n","i","t","i","a","l","i","z","e","d">>

\* main.py:141  "\u274c Database module not found (run enable-database first)"
DbModuleNotFound ==
    <<"U+274C"," ","D","a","t","a","b","a","s","e"," ","m","o","d","u","l","e"," ","n","o",
    "t"," ","f","o","u","n","d"," ","(","r","u","n"," ","e","n","a","b","l","e","-","d","a",
    "t","a","b","a","s","e"," ","f","i","r","s","t",")">>

\* main.py:143  "\u274c Error: "
ErrorPrefix ==
    <<"U+274C"," ","E","r","r","o","r",":"," ">>

\* main.py:147  "\u2705 Set"
EnvSet ==
    <<"U+2705"," ","S","e","t">>

\* main.py:147  "\u274c Not Set"
EnvNotSet ==
    <<"U+274C"," ","N","o","t"," ","S","e","t">>

---------------------------------------------------------------------------
(* POST /api/generate: the statements of generate(), one operator each,    *)
(* acting on the record f of the call's local variables.                   *)

\* tokens[:3]
NameTokens == 3

\* locals of a call before its first statement
NoFrame ==
    [prompt |-> <<>>, name |-> <<>>, subtitle_bits |-> <<>>, theme |-> "",
     lower |-> <<>>, tokens |-> <<>>, feature_bank |-> <<>>, subtitle |-> <<>>]

\* prompt = (req.prompt or "").strip(); the fallbacks; lower = prompt.lower()
StepNormalize(f, raw) ==
    LET prompt == Strip(raw)
    IN  [f EXCEPT !.prompt = prompt, !.name = DefaultName,
                  !.subtitle_bits = <<>>, !.theme = "fintech",
                  !.lower = Lower(prompt)]

\* faulty variant of StepTheme: an if/elif chain, so the first matching check wins
StepThemeFirstMatch(f) ==
    [f EXCEPT !.theme =
        IF AnyIn(FintechKeys, f.lower) THEN "fintech"
        ELSE IF AnyIn(SunsetKeys, f.lower) THEN "sunset"
        ELSE IF AnyIn(MintKeys, f.lower) THEN "mint"
        ELSE f.theme]

\* the three theme checks, run one after the other, each overwriting theme
StepTheme(f) ==
    LET t1 == IF AnyIn(FintechKeys, f.lower) THEN "fintech" ELSE f.theme
        t2 == IF AnyIn(SunsetKeys, f.lower) THEN "sunset" ELSE t1
        t3 == IF AnyIn(MintKeys, f.lower) THEN "mint" ELSE t2
    IN  [f EXCEPT !.theme = t3]

\* tokens = [t for t in prompt.replace("\n", " ").split(" ") if t]
Tokenize(prompt) ==
    SelectSeq(Split(Replace(prompt, "\n", " "), " "), LAMBDA t : t # <<>>)

\* faulty variant of Candidate: the joined tokens are not stripped
CandidateUnstripped(tokens) == Join(Prefix(tokens, NameTokens), <<" ">>)

\* cand = " ".join(tokens[:3]).strip()
Candidate(tokens) == Strip(Join(Prefix(tokens, NameTokens), <<" ">>))

\* the name extraction: tokens, cand, name = cand.title()
StepName(f) ==
    LET tokens == Tokenize(f.prompt)
        cand == Candidate(tokens)
    IN  [f EXCEPT !.tokens = tokens,
                  !.name = IF tokens # <<>> /\ cand # <<>> THEN Title(cand) ELSE @]

\* feature_bank: List[str] = []
StepBank(f) == [f EXCEPT !.feature_bank = <<>>]

\* add_feat(text)
AddFeat(bank, text) ==
    IF text # <<>> /\ ~InList(text, bank) THEN Append(bank, text) ELSE bank

\* faulty variant of FeatureChecks: the mobile check runs before the team check
FeatureChecksReordered ==
    << [keys |-> AiKeys,        feat |-> AiFeat,        tags |-> <<AiTag>>],
       [keys |-> AnalyticsKeys, feat |-> AnalyticsFeat, tags |-> <<AnalyticsTag>>],
       [keys |-> MobileKeys,    feat |-> MobileFeat,    tags |-> <<>>],
       [keys |-> TeamKeys,      feat |-> TeamFeat,      tags |-> <<TeamTag>>],
       [keys |-> SecureKeys,    feat |-> SecureFeat,    tags |-> <<>>],
       [keys |-> ApiKeys,       feat |-> ApiFeat,       tags |-> <<>>] >>

\* faulty variant of FeatureChecks: the team check appends no subtitle tag
FeatureChecksTeamUntagged ==
    << [keys |-> AiKeys,        feat |-> AiFeat,        tags |-> <<AiTag>>],
       [keys |-> AnalyticsKeys, feat |-> AnalyticsFeat, tags |-> <<AnalyticsTag>>],
       [keys |-> TeamKeys,      feat |-> TeamFeat,      tags |-> <<>>],
       [keys |-> MobileKeys,    feat |-> MobileFeat,    tags |-> <<>>],
       [keys |-> SecureKeys,    feat |-> SecureFeat,    tags |-> <<>>],
       [keys |-> ApiKeys,       feat |-> ApiFeat,       tags |-> <<>>] >>

\* the six feature checks in source order: keywords, feature, tags appended
FeatureChecks ==
    << [keys |-> AiKeys,        feat |-> AiFeat,        tags |-> <<AiTag>>],
       [keys |-> AnalyticsKeys, feat |-> AnalyticsFeat, tags |-> <<AnalyticsTag>>],
       [keys |-> TeamKeys,      feat |-> TeamFeat,      tags |-> <<TeamTag>>],
       [keys |-> MobileKeys,    feat |-> MobileFeat,    tags |-> <<>>],
       [keys |-> SecureKeys,    feat |-> SecureFeat,    tags |-> <<>>],
       [keys |-> ApiKeys,       feat |-> ApiFeat,       tags |-> <<>>] >>

NumChecks == Len(FeatureChecks)

\* the n-th `if any(k in lower ...)`: add_feat and subtitle_bits.append
StepCheck(f, n) ==
    LET c == FeatureChecks[n]
    IN  IF AnyIn(c.keys, f.lower)
        THEN [f EXCEPT !.feature_bank = AddFeat(@, c.feat),
                       !.subtitle_bits = @ \o c.tags]
        ELSE f

DefaultFeatures == <<DefaultFeat1, DefaultFeat2, DefaultFeat3>>

\* faulty variant of StepFallback: no default features
StepFallbackMissing(f) == f

\* if not feature_bank: feature_bank = [the three defaults]
StepFallback(f) ==
    IF f.feature_bank = <<>> THEN [f EXCEPT !.feature_bank = DefaultFeatures] ELSE f

\* faulty variant of StepSubtitle: the tags are joined by "," without the space
StepSubtitleBareComma(f) ==
    [f EXCEPT !.subtitle =
        IF f.subtitle_bits # <<>>
        THEN Join(FromKeys(f.subtitle_bits), <<",">>) \o SubtitleSuffix
        ELSE DefaultSubtitle]

\* subtitle = f"{', '.join(dict.fromkeys(subtitle_bits))} platform ..." or the default
StepSubtitle(f) ==
    [f EXCEPT !.subtitle =
        IF f.subtitle_bits # <<>>
        THEN Join(FromKeys(f.subtitle_bits), TagSeparator) \o SubtitleSuffix
        ELSE DefaultSubtitle]

\* return {"data": data, "themeId": theme}
Respond(f) ==
    [data |->
        [hero |-> [title |-> f.name \o TitleSuffix,
                   subtitle |-> f.subtitle,
                   cta |-> HeroCta],
         features |-> [items |-> f.feature_bank],
         cta |-> [title |-> CtaTitle, button |-> CtaButton]],
     themeId |-> f.theme]

\* the six checks in order, from the n-th on
RECURSIVE ChecksFrom(_, _)
ChecksFrom(f, n) ==
    IF n > NumChecks THEN f ELSE ChecksFrom(StepCheck(f, n), n + 1)

\* the locals of generate(req) at its return statement
GenerateFrame(raw) ==
    StepSubtitle(StepFallback(ChecksFrom(
        StepBank(StepName(StepTheme(StepNormalize(NoFrame, raw)))), 1)))

---------------------------------------------------------------------------
(* GET /test: test_database().                                             *)

\* str(e)[:50]
MsgLimit == 50
\* collections[:10]
CollLimit == 10

\* response = {...} as first assigned
InitialResponse ==
    [backend |-> BackendRunning, database |-> DbNotAvailable,
     database_url |-> None, database_name |-> None,
     connection_status |-> NotConnected, collections |-> <<>>]

\* an outcome of a statement of the try block: it completed with response r,
\* or it raised exception exc ("" when none) with message msg
Completed(r) == [resp |-> r, exc |-> "", msg |-> <<>>]
Raised(r, exc, msg) == [resp |-> r, exc |-> exc, msg |-> msg]

\* faulty variant of ListCollections: the message is rendered whole
ListCollectionsUntruncated(r, probe) ==
    IF probe.list = "ok"
    THEN [r EXCEPT !.collections = Prefix(probe.collections, CollLimit),
                   !.database = DbWorking]
    ELSE [r EXCEPT !.database = ConnectedErrorPrefix \o probe.msg]

\* the inner try: collections = db.list_collection_names(); except Exception
ListCollections(r, probe) ==
    IF probe.list = "ok"
    THEN [r EXCEPT !.collections = Prefix(probe.collections, CollLimit),
                   !.database = DbWorking]
    ELSE [r EXCEPT !.database = ConnectedErrorPrefix \o Prefix(probe.msg, MsgLimit)]

\* the body of the outer try: from database import db; if db is not None: ...
ProbeBody(r, probe) ==
    IF probe.import = "ImportError" THEN Raised(r, "ImportError", <<>>)
    ELSE IF probe.import = "Exception" THEN Raised(r, "Exception", probe.msg)
    ELSE IF probe.import = "None"
    THEN Completed([r EXCEPT !.database = DbNotInitialized])
    ELSE LET r1 == [r EXCEPT !.database = DbAvailable,
                             !.database_url = UrlConfigured]
         IN  IF probe.nameAttr = "raises"
             THEN Raised(r1, "Exception", probe.msg)
             ELSE LET r2 == [r1 EXCEPT
                                !.database_name =
                                    IF probe.nameAttr = "value"
                                    THEN probe.dbName ELSE NameConnected,
                                !.connection_status = Connected]
                  IN  Completed(ListCollections(r2, probe))

\* faulty variant of OuterCatch: only ImportError is caught
OuterCatchImportOnly(o) ==
    IF o.exc = "ImportError"
    THEN Completed([o.resp EXCEPT !.database = DbModuleNotFound])
    ELSE o

\* except ImportError: ...  except Exception as e: ...
OuterCatch(o) ==
    IF o.exc = "ImportError"
    THEN Completed([o.resp EXCEPT !.database = DbModuleNotFound])
    ELSE IF o.exc = "Exception"
    THEN Completed([o.resp EXCEPT
                       !.database = ErrorPrefix \o Prefix(o.msg, MsgLimit)])
    ELSE o

\* os.getenv(name) is truthy: the variable is set and not empty
Truthy(v) == v.set /\ v.value # <<>>

\* faulty variant of ReportEnv: the two fields keep what the probe stored in them
ReportEnvSkipped(o, env) == o

\* the environment-variable report that follows the try statement
ReportEnv(o, env) ==
    IF o.exc # "" THEN o
    ELSE Completed([o.resp EXCEPT
            !.database_url = IF Truthy(env.DATABASE_URL) THEN EnvSet ELSE EnvNotSet,
            !.database_name = IF Truthy(env.DATABASE_NAME) THEN EnvSet ELSE EnvNotSet])

\* test_database(): the outcome of the whole handler
TestOutcome(probe, env) ==
    ReportEnv(OuterCatch(ProbeBody(InitialResponse, probe)), env)

---------------------------------------------------------------------------
(* Inputs: the requests a client can send and the outcomes the database    *)
(* collaborator and the environment can produce.                           *)

\* fragments that generated prompts are concatenated from
Frags ==
    { <<" ">>, <<"\n">>, <<"\r">>,
      <<"e","M","a","i","l">>,
      <<"b","a","n","k">>,
      <<"w","e","l","l","n","e","s","s">>,
      <<"d","e","s","i","g","n">>,
      <<"i","t","'","s"," ","3","d">>,
      <<"A","I"," ","t","e","a","m"," ","d","a","s","h","b","o","a","r","d">>,
      <<"S","e","c","u","r","e"," ","m","o","b","i","l","e"," ","A","P","I">> }

\* "AI bank for wellness"
PromptAiBankWellness ==
    <<"A","I"," ","b","a","n","k"," ","f","o","r"," ","w","e","l","l","n","e","s","s">>

\* "hello world"
PromptHelloWorld == <<"h","e","l","l","o"," ","w","o","r","l","d">>

\* "AI dashboard for analytics"
PromptAiDashboard ==
    <<"A","I"," ","d","a","s","h","b","o","a","r","d"," ","f","o","r"," ",
      "a","n","a","l","y","t","i","c","s">>

\* "  rocket ship builder extra words"
PromptRocket ==
    <<" "," ","r","o","c","k","e","t"," ","s","h","i","p"," ","b","u","i","l","d","e","r",
      " ","e","x","t","r","a"," ","w","o","r","d","s">>

\* "a b c\r\nd": a third token that ends in a carriage return
PromptCrLf == <<"a"," ","b"," ","c","\r","\n","d">>

\* "team": matches the team/collab/share check only
PromptTeam == <<"t","e","a","m">>

ExamplePrompts ==
    { PromptAiBankWellness, PromptHelloWorld, PromptAiDashboard, PromptRocket,
      PromptCrLf, PromptTeam, <<>>, <<" "," "," ">> }

GeneratedPrompts ==
    { Join(fs, <<>>) : fs \in UNION { [1..n -> Frags] : n \in 0..MaxFrags } }

Prompts == ExamplePrompts \cup GeneratedPrompts

Digits == <<"0","1","2","3","4","5","6","7","8","9">>

\* an exception message of n characters, no two neighbours alike
MsgOf(n) == [i \in 1..n |-> Digits[(i % 10) + 1]]

Messages == { MsgOf(n) : n \in 0..(MsgLimit + MaxMsgExtra) }

\* n collection names
CollOf(n) == [i \in 1..n |-> <<"c", Digits[(i % 10) + 1]>>]

CollLists ==
    { CollOf(n) : n \in {0, 1, CollLimit} \cup (CollLimit + 1)..(CollLimit + MaxCollExtra) }

DbNames == { <<"p","r","o","d">>, <<"a","p","p","d","b">> }

NoProbe ==
    [import |-> "", nameAttr |-> "", dbName |-> <<>>, list |-> "",
     collections |-> <<>>, msg |-> <<>>]

\* what `from database import db`, db.name and db.list_collection_names() do
Probes ==
    { [NoProbe EXCEPT !.import = "ImportError"],
      [NoProbe EXCEPT !.import = "None"] }
    \cup { [NoProbe EXCEPT !.import = "Exception", !.msg = m] : m \in Messages }
    \cup { [NoProbe EXCEPT !.import = "db", !.nameAttr = "raises", !.msg = m] :
            m \in Messages }
    \cup { [NoProbe EXCEPT !.import = "db", !.nameAttr = "absent",
                           !.list = "ok", !.collections = c] : c \in CollLists }
    \cup { [NoProbe EXCEPT !.import = "db", !.nameAttr = "value", !.dbName = d,
                           !.list = "ok", !.collections = c] :
            d \in DbNames, c \in CollLists }
    \cup { [NoProbe EXCEPT !.import = "db", !.nameAttr = "absent",
                           !.list = "raises", !.msg = m] : m \in Messages }
    \cup { [NoProbe EXCEPT !.import = "db", !.nameAttr = "value", !.dbName = d,
                           !.list = "raises", !.msg = m] :
            d \in DbNames, m \in Messages }

\* "mongodb://user:pw@host/db"
SecretUrl ==
    <<"m","o","n","g","o","d","b",":","/","/","u","s","e","r",":","p","w","@",
      "h","o","s","t","/","d","b">>

Unset == [set |-> FALSE, value |-> <<>>]

\* os.environ: DATABASE_URL and DATABASE_NAME unset, empty, or set
Environments ==
    { [DATABASE_URL |-> u, DATABASE_NAME |-> n] :
        u \in { Unset, [set |-> TRUE, value |-> <<>>], [set |-> TRUE, value |-> SecretUrl] },
        n \in { Unset, [set |-> TRUE, value |-> <<>>] }
              \cup { [set |-> TRUE, value |-> d] : d \in DbNames } }

NoEnv == [DATABASE_URL |-> Unset, DATABASE_NAME |-> Unset]

NoRequest == [kind |-> "none", prompt |-> <<>>, probe |-> NoProbe, env |-> NoEnv]

Requests ==
    { [NoRequest EXCEPT !.kind = "generate", !.prompt = p] : p \in Prompts }
    \cup { [NoRequest EXCEPT !.kind = "test", !.probe = b, !.env = e] :
            b \in Probes, e \in Environments }
    \cup { [NoRequest EXCEPT !.kind = "root"], [NoRequest EXCEPT !.kind = "hello"] }

Calls == 1..NumCalls

\* "wellness"
PromptWellness == <<"w","e","l","l","n","e","s","s">>

\* "AI team dashboard"
PromptAiTeam ==
    <<"A","I"," ","t","e","a","m"," ","d","a","s","h","b","o","a","r","d">>

\* prompts sent to the concurrent service
ConcPrompts == { PromptWellness, PromptAiTeam }

---------------------------------------------------------------------------
(* The sequential service: one request, served by its handler.             *)

IdleConc ==
    /\ creq = [s \in Calls |-> <<>>]
    /\ cpc = [s \in Calls |-> [at |-> "idle", n |-> 0]]
    /\ frames = [s \in Calls |-> NoFrame]
    /\ cresp = [s \in Calls |-> NoResponse]
    /\ served = [p \in ConcPrompts |-> NoResponse]

Init ==
    /\ request \in Requests
    /\ pc = "idle"
    /\ frame = NoFrame
    /\ response = NoResponse
    /\ IdleConc

\* @app.get("/")
ReadRoot ==
    /\ pc = "idle" /\ request.kind = "root"
    /\ response' = [message |-> RootMessage]
    /\ pc' = "done"
    /\ UNCHANGED <<request, frame, concVars>>

\* @app.get("/api/hello")
Hello ==
    /\ pc = "idle" /\ request.kind = "hello"
    /\ response' = [message |-> HelloMessage]
    /\ pc' = "done"
    /\ UNCHANGED <<request, frame, concVars>>

\* @app.post("/api/generate")
Generate ==
    /\ pc = "idle" /\ request.kind = "generate"
    /\ LET f == GenerateFrame(request.prompt)
       IN  /\ frame' = f
           /\ response' = Respond(f)
    /\ pc' = "done"
    /\ UNCHANGED <<request, concVars>>

\* @app.get("/test"): an exception that leaves the handler is an error
TestDatabase ==
    /\ pc = "idle" /\ request.kind = "test"
    /\ LET o == TestOutcome(request.probe, request.env)
       IN  /\ response' = o.resp
           /\ pc' = IF o.exc = "" THEN "done" ELSE "error"
    /\ UNCHANGED <<request, frame, concVars>>

Next == ReadRoot \/ Hello \/ Generate \/ TestDatabase

Spec == Init /\ [][Next]_vars

---------------------------------------------------------------------------
(* The concurrent service: NumCalls worker threads, each running generate  *)
(* one statement at a time, interleaved with the others.                   *)

\* faulty variant of FrameOf: the locals are module-level, shared by all calls
SharedFrame(s) == 1

\* the frame holding the locals of call s: every call of generate has its own
FrameOf(s) == s

At(s, where) == cpc[s].at = where
Goto(s, where) == cpc' = [cpc EXCEPT ![s] = [at |-> where, n |-> 0]]
SetFrame(s, f) == frames' = [frames EXCEPT ![FrameOf(s)] = f]

InitConc ==
    /\ request = NoRequest
    /\ pc = "idle"
    /\ frame = NoFrame
    /\ response = NoResponse
    /\ IdleConc

\* a worker thread picks up a POST /api/generate request
Receive(s) ==
    /\ At(s, "idle")
    /\ \E p \in ConcPrompts : creq' = [creq EXCEPT ![s] = p]
    /\ Goto(s, "normalize")
    /\ UNCHANGED <<frames, cresp, served, seqVars>>

CallNormalize(s) ==
    /\ At(s, "normalize")
    /\ SetFrame(s, StepNormalize(frames[FrameOf(s)], creq[s]))
    /\ Goto(s, "theme")
    /\ UNCHANGED <<creq, cresp, served, seqVars>>

CallTheme(s) ==
    /\ At(s, "theme")
    /\ SetFrame(s, StepTheme(frames[FrameOf(s)]))
    /\ Goto(s, "name")
    /\ UNCHANGED <<creq, cresp, served, seqVars>>

CallName(s) ==
    /\ At(s, "name")
    /\ SetFrame(s, StepName(frames[FrameOf(s)]))
    /\ Goto(s, "bank")
    /\ UNCHANGED <<creq, cresp, served, seqVars>>

CallBank(s) ==
    /\ At(s, "bank")
    /\ SetFrame(s, StepBank(frames[FrameOf(s)]))
    /\ cpc' = [cpc EXCEPT ![s] = [at |-> "check", n |-> 1]]
    /\ UNCHANGED <<creq, cresp, served, seqVars>>

CallCheck(s) ==
    /\ At(s, "check")
    /\ SetFrame(s, StepCheck(frames[FrameOf(s)], cpc[s].n))
    /\ cpc' = [cpc EXCEPT ![s] =
                  IF cpc[s].n < NumChecks
                  THEN [at |-> "check", n |-> cpc[s].n + 1]
                  ELSE [at |-> "fallback", n |-> 0]]
    /\ UNCHANGED <<creq, cresp, served, seqVars>>

CallFallback(s) ==
    /\ At(s, "fallback")
    /\ SetFrame(s, StepFallback(frames[FrameOf(s)]))
    /\ Goto(s, "subtitle")
    /\ UNCHANGED <<creq, cresp, served, seqVars>>

CallSubtitle(s) ==
    /\ At(s, "subtitle")
    /\ SetFrame(s, StepSubtitle(frames[FrameOf(s)]))
    /\ Goto(s, "return")
    /\ UNCHANGED <<creq, cresp, served, seqVars>>

\* the return statement: the response leaves, the frame is discarded
CallReturn(s) ==
    /\ At(s, "return")
    /\ LET r == Respond(frames[FrameOf(s)])
       IN  /\ cresp' = [cresp EXCEPT ![s] = r]
           /\ served' = IF served[creq[s]] = NoResponse
                        THEN [served EXCEPT ![creq[s]] = r] ELSE served
    /\ SetFrame(s, NoFrame)
    /\ Goto(s, "done")
    /\ UNCHANGED <<creq, seqVars>>

\* the response is sent and the worker thread is free again
Reply(s) ==
    /\ At(s, "done")
    /\ creq' = [creq EXCEPT ![s] = <<>>]
    /\ cresp' = [cresp EXCEPT ![s] = NoResponse]
    /\ Goto(s, "idle")
    /\ UNCHANGED <<frames, served, seqVars>>

NextConc ==
    \E s \in Calls :
        \/ Receive(s)
        \/ CallNormalize(s)
        \/ CallTheme(s)
        \/ CallName(s)
        \/ CallBank(s)
        \/ CallCheck(s)
        \/ CallFallback(s)
        \/ CallSubtitle(s)
        \/ CallReturn(s)
        \/ Reply(s)

SpecConc == InitConc /\ [][NextConc]_vars

---------------------------------------------------------------------------
(* Properties of POST /api/generate, checked under Spec.                   *)

GenDone == request.kind = "generate" /\ pc = "done"

Items == response.data.features.items

\* the prompt as the keyword checks see it: trimmed and lower-cased
Seen == Lower(Strip(request.prompt))

\* the keyword sets and features of the six checks, in the order of evaluation
CheckKeys == <<AiKeys, AnalyticsKeys, TeamKeys, MobileKeys, SecureKeys, ApiKeys>>
CheckFeats == <<AiFeat, AnalyticsFeat, TeamFeat, MobileFeat, SecureFeat, ApiFeat>>

\* the checks whose keyword set has a substring match in the prompt
Matched ==
    LET seen == Seen IN {n \in 1..Len(CheckKeys) : AnyIn(CheckKeys[n], seen)}

\* the k-th smallest element of a set of numbers
Kth(S, k) == CHOOSE i \in S : Cardinality({j \in S : j < i}) = k - 1

\* C1: every generate request completes without error; its themeId is one of
\* fintech, sunset, mint, and features.items is non-empty, free of duplicates
\* and has at most six entries.
C1_GenerateTotal ==
    request.kind = "generate" =>
        /\ pc \in {"idle", "done"}
        /\ (pc = "done" =>
               /\ response # NoResponse
               /\ response.themeId \in {"fintech", "sunset", "mint"}
               /\ Items # <<>>
               /\ Len(Items) <= 6
               /\ \A i, j \in 1..Len(Items) : i # j => Items[i] # Items[j])

\* a request matching all six checks has been served
C1_Witness == GenDone /\ Len(Items) = 6

\* C2: themeId is mint if the lower-cased trimmed prompt holds a mint keyword,
\* otherwise sunset if it holds a sunset keyword, otherwise fintech; "AI bank
\* for wellness" yields mint.
C2_ThemePrecedence ==
    GenDone =>
        /\ response.themeId =
              LET seen == Seen
              IN  IF AnyIn(MintKeys, seen) THEN "mint"
                  ELSE IF AnyIn(SunsetKeys, seen) THEN "sunset"
                  ELSE "fintech"
        /\ (request.prompt = PromptAiBankWellness => response.themeId = "mint")

\* a prompt with a fintech, a sunset and a mint keyword has been served
C2_Witness ==
    /\ GenDone
    /\ LET seen == Seen
       IN  AnyIn(FintechKeys, seen) /\ AnyIn(SunsetKeys, seen) /\ AnyIn(MintKeys, seen)
    /\ response.themeId = "mint"

\* C3: features.items is exactly the features of the matching checks, in the
\* order of evaluation; when no check matches it is exactly the three default
\* items in order; a default item never stands beside a matched feature.
C3_FeatureItems ==
    GenDone =>
        /\ LET m == Matched
           IN  IF m = {}
               THEN Items = <<DefaultFeat1, DefaultFeat2, DefaultFeat3>>
               ELSE /\ Len(Items) = Cardinality(m)
                    /\ \A k \in 1..Len(Items) : Items[k] = CheckFeats[Kth(m, k)]
                    /\ \A k \in 1..Len(Items) :
                           Items[k] \notin {DefaultFeat1, DefaultFeat2, DefaultFeat3}
        /\ (request.prompt = PromptHelloWorld =>
               Items = <<DefaultFeat1, DefaultFeat2, DefaultFeat3>>)

\* a prompt matching the ai, mobile, security and integrations checks, and
\* neither of the two checks between them, has been served
C3_Witness ==
    /\ GenDone /\ Matched = {1, 4, 5, 6}
    /\ Items = <<AiFeat, MobileFeat, SecureFeat, ApiFeat>>

TeamOnlySubtitle ==
    <<"c","o","l","l","a","b","o","r","a","t","i","o","n"," ","p","l","a","t","f","o","r","m",
      " ","t","o"," ","h","e","l","p"," ","y","o","u"," ","m","o","v","e"," ",
      "f","a","s","t","e","r">>

AiDashboardSubtitle ==
    <<"A","I","-","p","o","w","e","r","e","d",","," ","a","n","a","l","y","t","i","c","s",
      " ","p","l","a","t","f","o","r","m"," ","t","o"," ","h","e","l","p"," ",
      "y","o","u"," ","m","o","v","e"," ","f","a","s","t","e","r">>

\* C5: with a non-empty tag list the subtitle is the tags, de-duplicated
\* keeping first occurrences and joined by ", ", followed by " platform to
\* help you move faster"; with an empty tag list it is the default subtitle;
\* "AI dashboard for analytics" yields "AI-powered, analytics platform to help
\* you move faster".
C5_Subtitle ==
    GenDone =>
        /\ response.data.hero.subtitle =
              IF frame.subtitle_bits # <<>>
              THEN Join(FromKeys(frame.subtitle_bits), <<",", " ">>)
                   \o SubtitleSuffix
              ELSE DefaultSubtitle
        /\ (Matched \cap {1, 2, 3} = {} => response.data.hero.subtitle = DefaultSubtitle)
        /\ (request.prompt = PromptAiDashboard =>
               response.data.hero.subtitle = AiDashboardSubtitle)

\* "AI dashboard for analytics" has been served
C5_Witness ==
    /\ GenDone /\ request.prompt = PromptAiDashboard
    /\ frame.subtitle_bits = <<AiTag, AnalyticsTag>>

\* the trimmed prompt with its newlines turned into spaces
Spaced == Replace(Strip(request.prompt), "\n", " ")

\* the positions of sp where a token starts: a non-space that is first or
\* follows a space
TokenStarts(sp) ==
    {i \in 1..Len(sp) : sp[i] # " " /\ (i = 1 \/ sp[i-1] = " ")}

\* the token of sp starting at i: up to the first position that ends sp or
\* stands before a space
TokenAt(sp, i) ==
    SubSeq(sp, i, SetMin({j \in i..Len(sp) : j = Len(sp) \/ sp[j+1] = " "}))

\* the first three tokens (fewer when there are fewer), joined by a space
FirstThreeJoined ==
    LET sp == Spaced
        starts == TokenStarts(sp)
        n == IF Cardinality(starts) < 3 THEN Cardinality(starts) ELSE 3
    IN  Join([k \in 1..n |-> TokenAt(sp, Kth(starts, k))], <<" ">>)

\* "Rocket Ship Builder"
RocketName ==
    <<"R","o","c","k","e","t"," ","S","h","i","p"," ","B","u","i","l","d","e","r">>

\* C6 as claimed: the name is the first three tokens joined by one space and
\* title-cased, "Your Product" for an empty or whitespace-only prompt.
C6_NameIsJoinedTokens ==
    GenDone =>
        /\ frame.name =
              IF TokenStarts(Spaced) = {} THEN DefaultName ELSE Title(FirstThreeJoined)
        /\ response.data.hero.title = frame.name \o TitleSuffix

\* C6 (amended): the name is the first three tokens joined by one space, with
\* leading and trailing whitespace then stripped, and title-cased; "Your
\* Product" for an empty or whitespace-only prompt; "  rocket ship builder
\* extra words" gives "Rocket Ship Builder".
C6_NameIsStrippedJoinedTokens ==
    GenDone =>
        /\ frame.name =
              IF TokenStarts(Spaced) = {} THEN DefaultName
              ELSE Title(Strip(FirstThreeJoined))
        /\ response.data.hero.title = frame.name \o TitleSuffix
        /\ (Strip(request.prompt) = <<>> => frame.name = DefaultName)
        /\ (request.prompt = PromptRocket => frame.name = RocketName)

\* "a b c\r\nd" has been served: four tokens, the third ending in "\r"
C6_Witness ==
    /\ GenDone /\ request.prompt = PromptCrLf
    /\ Cardinality(TokenStarts(Spaced)) = 4
    /\ frame.name = <<"A"," ","B"," ","C">>

---------------------------------------------------------------------------
(* Properties of GET /test, checked under Spec.                            *)

TestDone == request.kind = "test" /\ pc = "done"

StartsWith(s, pre) == Len(s) >= Len(pre) /\ SubSeq(s, 1, Len(pre)) = pre

\* the probe ended in the inner except clause
InnerError ==
    request.probe.import = "db" /\ request.probe.nameAttr # "raises"
    /\ request.probe.list = "raises"

\* the probe ended in the outer `except Exception` clause
OuterError ==
    \/ request.probe.import = "Exception"
    \/ request.probe.import = "db" /\ request.probe.nameAttr = "raises"

\* C7: whatever the probe does, GET /test reaches its return; the body says
\* the backend is running and "database" is the status string of the outcome.
C7_ProbeNeverPropagates ==
    request.kind = "test" =>
        /\ pc # "error"
        /\ (pc = "idle" => ENABLED TestDatabase)
        /\ (pc = "done" =>
               /\ response.backend = BackendRunning
               /\ response.database # None /\ response.database # <<>>
               /\ (request.probe.import = "ImportError" =>
                      response.database = DbModuleNotFound)
               /\ (request.probe.import = "None" =>
                      response.database = DbNotInitialized)
               /\ (OuterError => StartsWith(response.database, ErrorPrefix))
               /\ (InnerError => StartsWith(response.database, ConnectedErrorPrefix))
               /\ (request.probe.import = "db" /\ request.probe.nameAttr # "raises"
                   /\ request.probe.list = "ok" => response.database = DbWorking))

\* the import raised an exception other than ImportError, and /test returned
C7_Witness ==
    /\ TestDone /\ request.probe.import = "Exception"
    /\ StartsWith(response.database, ErrorPrefix)

\* C8: database_url and database_name are "Set" or "Not Set" by the presence
\* of a non-empty DATABASE_URL and DATABASE_NAME; neither the values of the
\* variables nor db.name are returned in them.
C8_EnvPresenceOnly ==
    TestDone =>
        LET url == request.env.DATABASE_URL
            name == request.env.DATABASE_NAME
        IN  /\ response.database_url =
                  IF url.set /\ url.value # <<>> THEN EnvSet ELSE EnvNotSet
            /\ response.database_name =
                  IF name.set /\ name.value # <<>> THEN EnvSet ELSE EnvNotSet
            /\ response.database_url \notin {url.value, name.value, request.probe.dbName}
            /\ response.database_name \notin {url.value, name.value, request.probe.dbName}

\* the database has a name, both variables are set, and /test returned
C8_Witness ==
    /\ TestDone
    /\ request.probe.nameAttr = "value" /\ request.probe.dbName # <<>>
    /\ request.env.DATABASE_URL.value = SecretUrl
    /\ request.env.DATABASE_NAME.value = request.probe.dbName
    /\ response.database_name = EnvSet

\* the status string d is the prefix followed by the first 50 characters of msg
RendersMessage(d, pre, msg) ==
    LET shown == SubSeq(d, Len(pre) + 1, Len(d))
    IN  /\ StartsWith(d, pre)
        /\ Len(shown) = (IF Len(msg) <= 50 THEN Len(msg) ELSE 50)
        /\ \A i \in 1..Len(shown) : shown[i] = msg[i]

\* C9: an exception rendered into "database" contributes at most the first 50
\* characters of its message after the status prefix; a message of 50
\* characters or fewer is included whole.
C9_MessageTruncated ==
    TestDone =>
        /\ (InnerError =>
               RendersMessage(response.database, ConnectedErrorPrefix, request.probe.msg))
        /\ (OuterError =>
               RendersMessage(response.database, ErrorPrefix, request.probe.msg))

\* list_collection_names raised with a message of more than 50 characters
C9_Witness ==
    /\ TestDone /\ InnerError
    /\ Len(request.probe.msg) > 50
    /\ Len(response.database) = Len(ConnectedErrorPrefix) + 50

---------------------------------------------------------------------------
(* Purity of the generator, checked under SpecConc.                        *)

\* C10: a response depends on the prompt of its request alone: it is the
\* response of a call that runs by itself, equal to the first response ever
\* returned for that prompt and to that of any other call with the prompt,
\* whatever ran before or runs at the same time.
C10_PureFunctionOfPrompt ==
    \A s \in Calls :
        cpc[s].at = "done" =>
            /\ cresp[s] = Respond(GenerateFrame(creq[s]))
            /\ cresp[s] = served[creq[s]]
            /\ \A t \in Calls :
                   cpc[t].at = "done" /\ creq[t] = creq[s] => cresp[t] = cresp[s]

\* two calls returned for the same prompt while a different prompt had been
\* served before, and a third request is being received
C10_Witness ==
    /\ cpc[1].at = "done" /\ cpc[2].at = "done"
    /\ creq[1] = creq[2]
    /\ cresp[1] = cresp[2]
    /\ \E p \in ConcPrompts : p # creq[1] /\ served[p] # NoResponse

===========================================================================
